---- MODULE Spec2Model ----
(***************************************************************************)
(* A model of ppl::pipeline (src/src/pipeline.cpp): the node registry, the *)
(* editing operations create_node / erase_node / connect / disconnect /    *)
(* get_dependencies, the move operations, the validator is_valid, the     *)
(* scheduler step / run with the nodes of the test suite, and the DOT      *)
(* rendering of operator<<.                                                *)
(*                                                                         *)
(* Node objects live on a heap and are named by their address (an Obj).    *)
(* A pipeline maps node ids to addresses; a node object carries its        *)
(* connections_ (slot -> upstream id), its dependencies_ (a vector of      *)
(* (downstream id, slot) pairs) and the upstream pointers the user's       *)
(* connect() callback stored (slot0, slot1 of the test components).        *)
(***************************************************************************)
EXTENDS Integers, Sequences, FiniteSets, TLC

\* ------------------------------------------------------------------ bounds

\* Number of node objects ever allocated (calls of `new N`) in one behaviour.
MaxObj == 3

\* Number of connections (filled slots) that exist at one time.
MaxEdges == 3

\* The widest node type of the test suite, test_component, has two slots.
\* Slot arguments of connect() range over -1 .. MaxArity: both out-of-range
\* sides and every slot of every node type.
MaxArity == 2

\* Number of move constructions and move assignments in one behaviour.
MaxMoves == 1

\* Number of step() calls in one behaviour.
MaxTicks == 23

\* Number of node objects ever allocated in a behaviour that replaces nodes
\* of the five-node test pipeline.
MaxNodes == 7

\* ------------------------------------------------------------- constants

\* The two pipeline objects of the model: p and p2.
Pipes == {1, 2}

\* The null pointer; node addresses are 1, 2, ...
NULL == 0

Obj == 1..MaxObj

\* Node ids passed as arguments (live, erased or never created).
IdArgs == 1..MaxObj

SlotArgs == (-1)..MaxArity

\* The concrete node types of the test suite.
Kinds == {"source", "component", "sink", "sink_double"}

\* get_input_types(): the per-slot input type tokens of a node type.
get_input_types(k) ==
    CASE k = "source"      -> << >>
      [] k = "component"   -> <<"int", "int">>
      [] k = "sink"        -> <<"int">>
      [] k = "sink_double" -> <<"double">>

\* get_output_type(): the output type token of a node type.
get_output_type(k) ==
    CASE k = "source"      -> "int"
      [] k = "component"   -> "int"
      [] k = "sink"        -> "void"
      [] k = "sink_double" -> "void"

\* ----------------------------------------------------------------- state

VARIABLES
    constructed,  \* [Pipes -> BOOLEAN]: the pipeline object is alive
    nodes_,       \* [Pipes -> [ids -> Obj]]: pipeline::nodes_
    current_id,   \* [Pipes -> Int]: pipeline::current_id
    heap,         \* [live Obj -> node object]
    next_obj,     \* the next address `new` hands out
    returned,     \* history: [Pipes -> Seq(id)], the ids create_node returned
    erased,       \* history: [Pipes -> SUBSET id], the ids erase_node erased
    moves,        \* history: the number of moves made so far
    last,         \* the last call: operation, error kind thrown, value returned,
                  \* and the ids of the nodes it changed or removed
    run_pc,       \* pipeline::run: "idle" (not called), "loop" or "returned"
    ticks,        \* history: the number of step() calls made so far
    host          \* the host program: pc is "first" while it drives the
                  \* pipeline it built, "repair" while it replaces nodes and
                  \* "second" once it drives the repaired pipeline; at is the
                  \* number of step() calls made before the repair began

vars == <<constructed, nodes_, current_id, heap, next_obj, returned, erased, moves,
          last, run_pc, ticks, host>>

\* What erase_node, connect and disconnect may change of the graph.
graph == <<nodes_, heap>>

\* A freshly constructed node object of type k.
NewNode(k) ==
    [kind          |-> k,
     connections_  |-> << >>,
     dependencies_ |-> << >>,
     slot          |-> [s \in 0..(Len(get_input_types(k)) - 1) |-> NULL]]

\* The outcome of a call: err is the pipeline_error kind thrown ("none" when
\* the call returned), ret the value returned (0 for void), touched the ids
\* of the nodes whose object the call changed or deleted.
Call(op, err, ret, touched) ==
    [op |-> op, err |-> err, ret |-> ret, touched |-> touched]

NoCall == Call("none", "none", 0, {})

\* The host program before any repair.
HostStart == [pc |-> "first", at |-> 0]

\* pipeline(): nodes_(), current_id(1)
Init ==
    /\ constructed = [p \in Pipes |-> p = 1]
    /\ nodes_ = [p \in Pipes |-> << >>]
    /\ current_id = [p \in Pipes |-> 1]
    /\ heap = << >>
    /\ next_obj = 1
    /\ returned = [p \in Pipes |-> << >>]
    /\ erased = [p \in Pipes |-> {}]
    /\ moves = 0
    /\ last = NoCall
    /\ run_pc = "idle"
    /\ ticks = 0
    /\ host = HostStart

\* The ids of pipeline p whose node object differs in heap h2 from the
\* current heap or is gone from it.
Touched(p, h2) ==
    {id \in DOMAIN nodes_[p] :
        \/ nodes_[p][id] \notin DOMAIN h2
        \/ h2[nodes_[p][id]] # heap[nodes_[p][id]]}

\* pipeline::get_node
get_node(p, n_id) ==
    IF n_id \in DOMAIN nodes_[p] THEN nodes_[p][n_id] ELSE NULL

\* std::map::emplace: inserts only when the key is not present.
emplace(m, key, val) ==
    IF key \in DOMAIN m THEN m
    ELSE [x \in DOMAIN m \cup {key} |-> IF x = key THEN val ELSE m[x]]


\* A variant of create_node that returns current_id without incrementing it.
create_node_no_increment(p, k) ==
    /\ constructed[p]
    /\ next_obj <= MaxObj
    /\ current_id[p] <= MaxObj
    /\ heap' = emplace(heap, next_obj, NewNode(k))
    /\ next_obj' = next_obj + 1
    /\ nodes_' = [nodes_ EXCEPT ![p] = emplace(nodes_[p], current_id[p], next_obj)]
    /\ returned' = [returned EXCEPT ![p] = Append(returned[p], current_id[p])]
    /\ last' = Call("create_node", "none", current_id[p], {})
    /\ UNCHANGED <<host, run_pc, ticks, constructed, current_id, erased, moves>>

\* pipeline::create_node<N>(args): nodes_.emplace(current_id, new N(args));
\* return current_id++.  node is the object `new N(args)` constructs.
create_node_of(p, node) ==
    /\ constructed[p]
    /\ heap' = emplace(heap, next_obj, node)
    /\ next_obj' = next_obj + 1
    /\ nodes_' = [nodes_ EXCEPT ![p] = emplace(nodes_[p], current_id[p], next_obj)]
    /\ current_id' = [current_id EXCEPT ![p] = current_id[p] + 1]
    /\ returned' = [returned EXCEPT ![p] = Append(returned[p], current_id[p])]
    /\ last' = Call("create_node", "none", current_id[p], {})
    /\ UNCHANGED <<host, run_pc, ticks, constructed, erased, moves>>

\* create_node<N>() for a node type of the editing tests, within the bounds.
create_node(p, k) ==
    /\ next_obj <= MaxObj
    /\ current_id[p] <= MaxObj
    /\ create_node_of(p, NewNode(k))

\* The values of a map (the second components of its entries).
Range(f) == {f[x] : x \in DOMAIN f}

\* The entries of a vector, as a set of indices' values.
Entries(q) == {q[i] : i \in DOMAIN q}

\* A map without the keys in ks (std::unordered_map::erase, std::erase_if).
RemoveKeys(m, ks) == [x \in DOMAIN m \ ks |-> m[x]]

IsFirst(item, id) == item[1] = id

\* std::erase_if(dependencies_, item.first == id)
erase_deps_of(deps, id) == SelectSeq(deps, LAMBDA item : ~IsFirst(item, id))

\* The connect(const node*, int) callback of the node types of the test
\* suite: source<Output>::connect throws no_such_slot.
node_connect_throws(k) == k = "source"

\* test_component::connect stores the pointer for slot 0 and slot 1,
\* test_sink::connect and test_sink_double::connect for slot 0 only.
node_connect(node, ref, slot) ==
    IF slot \in DOMAIN node.slot
    THEN [node EXCEPT !.slot = [node.slot EXCEPT ![slot] = ref]]
    ELSE node

\* ----------------------------------------------------------- erase_node

\* The nodes erase_node dereferences without a null check: the upstream of
\* every connection, then the downstream of every remaining dependency.
erase_derefs_live(p, n_id) ==
    LET node == heap[get_node(p, n_id)]
    IN  /\ \A src \in Range(node.connections_) : get_node(p, src) # NULL
        /\ \A item \in Entries(node.dependencies_) : get_node(p, item[1]) # NULL


\* A variant of the first loop of erase_node that leaves the upstream nodes
\* as they are.
erase_from_upstream_skipped(p, n_id, h) == h

\* First loop of erase_node: the upstream nodes forget the erased node.
erase_from_upstream(p, n_id, h) ==
    LET node == h[get_node(p, n_id)]
        ups  == {get_node(p, src) : src \in Range(node.connections_)}
    IN  [o \in DOMAIN h |->
            IF o \in ups
            THEN [h[o] EXCEPT !.dependencies_ = erase_deps_of(@, n_id)]
            ELSE h[o]]


\* A variant of the second loop of erase_node that leaves the downstream
\* nodes as they are.
erase_from_downstream_skipped(p, n_id, h) == h

\* Second loop of erase_node: get_node(dst)->connections_.erase(slot) for
\* every (dst, slot) of the erased node's dependencies_.
erase_from_downstream(p, n_id, h) ==
    LET node == h[get_node(p, n_id)]
        fed(o) == {item[2] : item \in
                     {it \in Entries(node.dependencies_) : get_node(p, it[1]) = o}}
    IN  [o \in DOMAIN h |->
            [h[o] EXCEPT !.connections_ = RemoveKeys(@, fed(o))]]

\* delete node; nodes_.erase(n_id)
delete_node(p, n_id, h) == [o \in DOMAIN h \ {get_node(p, n_id)} |-> h[o]]


\* A variant of the check of erase_node that throws another kind.
erase_node_error_other_kind(p, n_id) ==
    IF get_node(p, n_id) = NULL THEN "no_such_slot" ELSE "none"

erase_node_error(p, n_id) ==
    IF get_node(p, n_id) = NULL THEN "invalid_node_id" ELSE "none"

\* pipeline::erase_node
erase_node(p, n_id) ==
    /\ constructed[p]
    /\ LET err == erase_node_error(p, n_id)
       IN  IF err # "none"
           THEN /\ last' = Call("erase_node", err, 0, {})
                /\ UNCHANGED <<graph, erased>>
           ELSE IF ~erase_derefs_live(p, n_id)
           THEN /\ last' = Call("erase_node", "undefined", 0, {})
                /\ UNCHANGED <<graph, erased>>
           ELSE /\ heap' = delete_node(p, n_id,
                              erase_from_downstream(p, n_id,
                                 erase_from_upstream(p, n_id, heap)))
                /\ nodes_' = [nodes_ EXCEPT ![p] = RemoveKeys(@, {n_id})]
                /\ erased' = [erased EXCEPT ![p] = @ \cup {n_id}]
                /\ last' = Call("erase_node", "none", 0, Touched(p, heap'))
    /\ UNCHANGED <<host, run_pc, ticks, constructed, current_id, next_obj, returned, moves>>

\* -------------------------------------------------------------- connect


\* A variant of the checks of connect that compares the types before it
\* looks whether the slot is in use.
connect_error_type_first(p, src, dst, slot) ==
    LET src_node == get_node(p, src)
        dst_node == get_node(p, dst)
    IN  IF src_node = NULL \/ dst_node = NULL THEN "invalid_node_id"
        ELSE IF slot < 0 \/ slot >= Len(get_input_types(heap[dst_node].kind))
             THEN "no_such_slot"
        ELSE IF get_input_types(heap[dst_node].kind)[slot + 1]
                  # get_output_type(heap[src_node].kind)
             THEN "connection_type_mismatch"
        ELSE IF slot \in DOMAIN heap[dst_node].connections_ THEN "slot_already_used"
        ELSE "none"


\* A variant of the checks of connect that does not compare the types.
connect_error_without_type_check(p, src, dst, slot) ==
    LET src_node == get_node(p, src)
        dst_node == get_node(p, dst)
    IN  IF src_node = NULL \/ dst_node = NULL THEN "invalid_node_id"
        ELSE IF slot \in DOMAIN heap[dst_node].connections_ THEN "slot_already_used"
        ELSE IF slot < 0 \/ slot >= Len(get_input_types(heap[dst_node].kind))
             THEN "no_such_slot"
        ELSE IF node_connect_throws(heap[dst_node].kind) THEN "no_such_slot"
        ELSE "none"

\* The checks of pipeline::connect, in the order of the code.
connect_error(p, src, dst, slot) ==
    LET src_node == get_node(p, src)
        dst_node == get_node(p, dst)
    IN  IF src_node = NULL \/ dst_node = NULL THEN "invalid_node_id"
        ELSE IF slot \in DOMAIN heap[dst_node].connections_ THEN "slot_already_used"
        ELSE IF slot < 0 \/ slot >= Len(get_input_types(heap[dst_node].kind))
             THEN "no_such_slot"
        ELSE IF get_input_types(heap[dst_node].kind)[slot + 1]
                  # get_output_type(heap[src_node].kind)
             THEN "connection_type_mismatch"
        ELSE IF node_connect_throws(heap[dst_node].kind) THEN "no_such_slot"
        ELSE "none"


\* A variant of the update of dst that does not call the connect callback of
\* the node: the pointer the node stored stays as it was.
connect_dst_without_callback(h, src_node, dst_node, src, slot) ==
    [h EXCEPT ![dst_node].connections_ = emplace(@, slot, src)]

\* dst_node->connect(src_node, slot); dst_node->connections_.emplace(slot, src)
connect_dst(h, src_node, dst_node, src, slot) ==
    [h EXCEPT ![dst_node] =
        [node_connect(@, src_node, slot)
            EXCEPT !.connections_ = emplace(@, slot, src)]]


\* A variant of the update of src that keeps one entry per downstream node.
connect_src_one_per_node(h, src_node, dst, slot) ==
    IF \E item \in Entries(h[src_node].dependencies_) : IsFirst(item, dst)
    THEN h
    ELSE [h EXCEPT ![src_node].dependencies_ = Append(@, <<dst, slot>>)]

\* src_node->dependencies_.emplace_back(dst, slot)
connect_src(h, src_node, dst, slot) ==
    [h EXCEPT ![src_node].dependencies_ = Append(@, <<dst, slot>>)]

\* The number of filled slots over all node objects.
EdgeCount ==
    Cardinality({x \in (DOMAIN heap) \X (0..(MaxArity - 1)) :
                    x[2] \in DOMAIN heap[x[1]].connections_})


\* A variant of connect that registers the connection in dst before it
\* compares the types.
connect_registers_before_type_check(p, src, dst, slot) ==
    /\ constructed[p]
    /\ connect_error(p, src, dst, slot) = "none" => EdgeCount < MaxEdges
    /\ LET err == connect_error(p, src, dst, slot)
       IN  /\ IF err = "connection_type_mismatch"
              THEN /\ heap' = connect_dst(heap, get_node(p, src), get_node(p, dst),
                                          src, slot)
                   /\ UNCHANGED nodes_
              ELSE IF err # "none"
              THEN UNCHANGED graph
              ELSE /\ heap' = connect_src(
                                connect_dst(heap, get_node(p, src), get_node(p, dst),
                                            src, slot),
                                get_node(p, src), dst, slot)
                   /\ UNCHANGED nodes_
           /\ last' = Call("connect", err, 0, Touched(p, heap'))
    /\ UNCHANGED <<host, run_pc, ticks, constructed, current_id, next_obj, returned, erased, moves>>

\* pipeline::connect
pipeline_connect(p, src, dst, slot) ==
    /\ constructed[p]
    /\ LET err == connect_error(p, src, dst, slot)
       IN  /\ IF err # "none"
              THEN UNCHANGED graph
              ELSE /\ heap' = connect_src(
                                connect_dst(heap, get_node(p, src), get_node(p, dst),
                                            src, slot),
                                get_node(p, src), dst, slot)
                   /\ UNCHANGED nodes_
           /\ last' = Call("connect", err, 0, Touched(p, heap'))
    /\ UNCHANGED <<host, run_pc, ticks, constructed, current_id, next_obj, returned, erased, moves>>

\* pipeline::connect, within the bound on the number of connections.
connect(p, src, dst, slot) ==
    /\ connect_error(p, src, dst, slot) = "none" => EdgeCount < MaxEdges
    /\ pipeline_connect(p, src, dst, slot)

\* ----------------------------------------------------------- disconnect

\* The slots of dst currently connected by src.
slots_connected_by(h, dst_node, src) ==
    {s \in DOMAIN h[dst_node].connections_ : h[dst_node].connections_[s] = src}

disconnect_error(p, src, dst) ==
    LET src_node == get_node(p, src)
        dst_node == get_node(p, dst)
    IN  IF src_node = NULL \/ dst_node = NULL THEN "invalid_node_id"
        ELSE IF /\ slots_connected_by(heap, dst_node, src) # {}
                /\ node_connect_throws(heap[dst_node].kind)
             THEN "no_such_slot"
        ELSE "none"

\* The loop dst_node->connect(nullptr, slot) over the slots connected by src.
RECURSIVE clear_slots(_, _)
clear_slots(node, ss) ==
    IF ss = {} THEN node
    ELSE LET s == CHOOSE x \in ss : TRUE
         IN  clear_slots(node_connect(node, NULL, s), ss \ {s})


\* A variant of the update of dst that clears every filled slot of dst.
disconnect_dst_every_slot(h, dst_node, src) ==
    LET ss == DOMAIN h[dst_node].connections_
    IN  [h EXCEPT ![dst_node] =
            [clear_slots(@, ss) EXCEPT !.connections_ = RemoveKeys(@, ss)]]

\* The loop, then std::erase_if(dst_node->connections_, item.second == src)
disconnect_dst(h, dst_node, src) ==
    LET ss == slots_connected_by(h, dst_node, src)
    IN  [h EXCEPT ![dst_node] =
            [clear_slots(@, ss) EXCEPT !.connections_ = RemoveKeys(@, ss)]]

\* std::erase_if(src_node->dependencies_, item.first == dst)
disconnect_src(h, src_node, dst) ==
    [h EXCEPT ![src_node].dependencies_ = erase_deps_of(@, dst)]

\* pipeline::disconnect
disconnect(p, src, dst) ==
    /\ constructed[p]
    /\ LET err == disconnect_error(p, src, dst)
       IN  /\ IF err # "none"
              THEN UNCHANGED graph
              ELSE /\ heap' = disconnect_src(
                                disconnect_dst(heap, get_node(p, dst), src),
                                get_node(p, src), dst)
                   /\ UNCHANGED nodes_
           /\ last' = Call("disconnect", err, 0, Touched(p, heap'))
    /\ UNCHANGED <<host, run_pc, ticks, constructed, current_id, next_obj, returned, erased, moves>>

\* ----------------------------------------------------- get_dependencies

get_dependencies_error(p, src) ==
    IF get_node(p, src) = NULL THEN "invalid_node_id" ELSE "none"

\* pipeline::get_dependencies: a copy of the node's dependencies_.
get_dependencies(p, src) ==
    /\ constructed[p]
    /\ LET err == get_dependencies_error(p, src)
       IN  last' = Call("get_dependencies", err,
                        IF err = "none" THEN heap[get_node(p, src)].dependencies_
                        ELSE << >>, {})
    /\ UNCHANGED <<host, run_pc, ticks, constructed, nodes_, current_id, heap, next_obj, returned, erased,
                   moves>>

\* ------------------------------------------------------------- is_valid

\* The node object registered under id in pipeline p.
node_of(p, id) == heap[nodes_[p][id]]

\* The ids of a set in ascending order: the iteration order of std::map.
RECURSIVE SortedIds(_)
SortedIds(S) ==
    IF S = {} THEN << >>
    ELSE LET m == CHOOSE x \in S : \A y \in S : x <= y
         IN  <<m>> \o SortedIds(S \ {m})

\* The upstream ids of a node in the order a loop over connections_ visits
\* them.  connections_ is a std::unordered_map, whose iteration order is
\* unspecified: ord chooses ascending or descending slot order (with at most
\* two slots, these are all the orders).
RECURSIVE upstream_in_order(_, _)
upstream_in_order(conns, ord) ==
    IF DOMAIN conns = {} THEN << >>
    ELSE LET s == IF ord = "ascending"
                  THEN CHOOSE x \in DOMAIN conns : \A y \in DOMAIN conns : x <= y
                  ELSE CHOOSE x \in DOMAIN conns : \A y \in DOMAIN conns : x >= y
         IN  <<conns[s]>> \o upstream_in_order(RemoveKeys(conns, {s}), ord)

Orders == {"ascending", "descending"}


\* A variant of the first loop that does not look at the dependents.
valid_locally_without_dependents(p) ==
    /\ \A id \in DOMAIN nodes_[p] :
          LET node == node_of(p, id)
          IN  Cardinality(DOMAIN node.connections_) = Len(get_input_types(node.kind))
    /\ \E id \in DOMAIN nodes_[p] : get_output_type(node_of(p, id).kind) = "void"
    /\ \E id \in DOMAIN nodes_[p] : get_input_types(node_of(p, id).kind) = << >>

\* First loop of is_valid: every slot filled, every producer has a
\* dependent; then has_sink and has_source.
valid_locally(p) ==
    /\ \A id \in DOMAIN nodes_[p] :
          LET node == node_of(p, id)
          IN  /\ Cardinality(DOMAIN node.connections_)
                    = Len(get_input_types(node.kind))
              /\ ~(get_output_type(node.kind) # "void" /\ node.dependencies_ = << >>)
    /\ \E id \in DOMAIN nodes_[p] : get_output_type(node_of(p, id).kind) = "void"
    /\ \E id \in DOMAIN nodes_[p] : get_input_types(node_of(p, id).kind) = << >>


\* A variant of the mark that does not tell visited from visiting.
mark_of_no_visited_state(visited, src) == IF src \in DOMAIN visited THEN 1 ELSE 0

\* visited[src] of a std::unordered_map<node_id, int>: 0 when absent.
mark_of(visited, src) == IF src \in DOMAIN visited THEN visited[src] ELSE 0

set_mark(visited, src, m) ==
    [x \in DOMAIN visited \cup {src} |-> IF x = src THEN m ELSE visited[x]]

\* The lambda has_cycle of is_valid (1 = visiting, 2 = visited) and its loop
\* over the connections of the node.  The result is the pair of the value
\* returned and the visited map.
RECURSIVE has_cycle(_, _, _, _), has_cycle_loop(_, _, _, _, _)

\* A variant of has_cycle that does not tell a node that is being visited
\* from one that has been visited.
has_cycle_without_visiting(p, src, visited, ord) ==
    IF mark_of(visited, src) # 0 THEN [cycle |-> FALSE, visited |-> visited]
    ELSE has_cycle_loop(p, src, upstream_in_order(node_of(p, src).connections_, ord),
                        set_mark(visited, src, 1), ord)

has_cycle(p, src, visited, ord) ==
    IF mark_of(visited, src) = 1 THEN [cycle |-> TRUE, visited |-> visited]
    ELSE IF mark_of(visited, src) = 2 THEN [cycle |-> FALSE, visited |-> visited]
    ELSE has_cycle_loop(p, src, upstream_in_order(node_of(p, src).connections_, ord),
                        set_mark(visited, src, 1), ord)

has_cycle_loop(p, src, ups, visited, ord) ==
    IF ups = << >> THEN [cycle |-> FALSE, visited |-> set_mark(visited, src, 2)]
    ELSE LET r == has_cycle(p, Head(ups), visited, ord)
         IN  IF r.cycle THEN r
             ELSE has_cycle_loop(p, src, Tail(ups), r.visited, ord)

\* The loop over nodes_ that starts has_cycle at every sink, sharing visited.
RECURSIVE cycle_from_sinks(_, _, _, _)
cycle_from_sinks(p, ids, visited, ord) ==
    IF ids = << >> THEN FALSE
    ELSE IF get_output_type(node_of(p, Head(ids)).kind) = "void"
         THEN LET r == has_cycle(p, Head(ids), visited, ord)
              IN  IF r.cycle THEN TRUE
                  ELSE cycle_from_sinks(p, Tail(ids), r.visited, ord)
         ELSE cycle_from_sinks(p, Tail(ids), visited, ord)


\* The map visited of is_valid when the loop that starts has_cycle at every
\* sink ends: at the first cycle found, or after the last sink.
RECURSIVE cycle_search(_, _, _, _)
cycle_search(p, ids, visited, ord) ==
    IF ids = << >> THEN visited
    ELSE IF get_output_type(node_of(p, Head(ids)).kind) = "void"
         THEN LET r == has_cycle(p, Head(ids), visited, ord)
              IN  IF r.cycle THEN r.visited
                  ELSE cycle_search(p, Tail(ids), r.visited, ord)
         ELSE cycle_search(p, Tail(ids), visited, ord)

\* The ids next to id in the undirected graph: its connections and its
\* dependencies.
neighbours(p, id) ==
    Range(node_of(p, id).connections_)
        \cup {item[1] : item \in Entries(node_of(p, id).dependencies_)}

\* The lambda dfs_all: the keys of visited_all after the traversal from src.
RECURSIVE dfs_all(_, _, _)
dfs_all(p, todo, visited_all) ==
    IF todo = {} THEN visited_all
    ELSE LET src == CHOOSE x \in todo : TRUE
         IN  IF src \in visited_all
             THEN dfs_all(p, todo \ {src}, visited_all)
             ELSE dfs_all(p, (todo \ {src}) \cup neighbours(p, src),
                          visited_all \cup {src})


\* A variant of the last loop that lacks the break: the traversal restarts
\* from every node before the sizes are compared.
connected_without_break(p) ==
    Cardinality(dfs_all(p, DOMAIN nodes_[p], {})) = Cardinality(DOMAIN nodes_[p])

\* The last loop of is_valid: one traversal from the first node of nodes_.
connected(p) ==
    \/ DOMAIN nodes_[p] = {}
    \/ LET first == Head(SortedIds(DOMAIN nodes_[p]))
       IN  Cardinality(dfs_all(p, {first}, {})) = Cardinality(DOMAIN nodes_[p])

\* The value pipeline::is_valid returns.
is_valid_result(p, ord) ==
    /\ valid_locally(p)
    /\ ~cycle_from_sinks(p, SortedIds(DOMAIN nodes_[p]), << >>, ord)
    /\ connected(p)

\* pipeline::is_valid
is_valid(p) ==
    /\ constructed[p]
    /\ \E ord \in Orders : last' = Call("is_valid", "none", is_valid_result(p, ord), {})
    /\ UNCHANGED <<host, run_pc, ticks, constructed, nodes_, current_id, heap, next_obj, returned, erased,
                   moves>>

\* ------------------------------------------ construction, move, destruction

\* The values an uninitialised int may hold.  The move constructor does not
\* initialise current_id.
Indeterminate == 1..MaxObj


\* A variant of the transfer that leaves the registry of other as it was.
move_nodes_without_clear(p, other) ==
    [nodes_ EXCEPT ![p] = nodes_[other]]

\* nodes_ = std::move(other.nodes_); other.nodes_.clear()
move_nodes(p, other) ==
    [nodes_ EXCEPT ![p] = nodes_[other], ![other] = << >>]

\* pipeline::pipeline(): nodes_(), current_id(1)
default_construct(p) ==
    /\ ~constructed[p]
    /\ constructed' = [constructed EXCEPT ![p] = TRUE]
    /\ nodes_' = [nodes_ EXCEPT ![p] = << >>]
    /\ current_id' = [current_id EXCEPT ![p] = 1]
    /\ returned' = [returned EXCEPT ![p] = << >>]
    /\ erased' = [erased EXCEPT ![p] = {}]
    /\ last' = Call("pipeline", "none", 0, {})
    /\ UNCHANGED <<host, run_pc, ticks, heap, next_obj, moves>>

\* pipeline::pipeline(pipeline&& other): current_id is left uninitialised.
move_construct(p, other) ==
    /\ moves < MaxMoves
    /\ moves' = moves + 1
    /\ ~constructed[p]
    /\ constructed[other]
    /\ constructed' = [constructed EXCEPT ![p] = TRUE]
    /\ nodes_' = move_nodes(p, other)
    /\ \E v \in Indeterminate : current_id' = [current_id EXCEPT ![p] = v]
    /\ returned' = [returned EXCEPT ![p] = << >>]
    /\ erased' = [erased EXCEPT ![p] = {}]
    /\ last' = Call("move_construct", "none", <<p, other>>, {})
    /\ UNCHANGED <<host, run_pc, ticks, heap, next_obj>>

\* pipeline::operator=(pipeline&& other): nothing happens on self-assignment;
\* the nodes the target owned before are not deleted.
move_assign(p, other) ==
    /\ moves < MaxMoves
    /\ moves' = moves + 1
    /\ constructed[p]
    /\ constructed[other]
    /\ nodes_' = IF p # other THEN move_nodes(p, other) ELSE nodes_
    /\ last' = Call("move_assign", "none", <<p, other>>, {})
    /\ UNCHANGED <<host, run_pc, ticks, constructed, current_id, heap, next_obj, returned, erased>>

\* ------------------------------------------------------------ step, run

\* enum class poll
Polls == {"ready", "empty", "closed"}


\* A variant of the constructors that starts a node at its bound, where an
\* exhausted source ends.
NewTestNode_exhausted(k, cls, bound) ==
    [kind          |-> k,
     connections_  |-> << >>,
     dependencies_ |-> << >>,
     slot          |-> [s \in 0..(Len(get_input_types(k)) - 1) |-> NULL],
     cls           |-> cls,
     current_value |-> bound,
     bound         |-> bound,
     stream        |-> << >>]

\* The node classes of the test suite that carry data: a node object of such
\* a class has the fields of NewNode and cls, current_value, bound, stream.
\* (test_source is a flex_source of bound 10.)
NewTestNode(k, cls, bound) ==
    [kind          |-> k,
     connections_  |-> << >>,
     dependencies_ |-> << >>,
     slot          |-> [s \in 0..(Len(get_input_types(k)) - 1) |-> NULL],
     cls           |-> cls,
     current_value |-> 0,
     bound         |-> bound,
     stream        |-> << >>]

\* The node is of a class whose poll_next the model knows; the poll_next of
\* any other node is user code that may return any poll value.
IsTestNode(node) == "cls" \in DOMAIN node

\* ref->value() through a pointer a connect callback stored.  The pointer is
\* null while the slot is not connected and dangles once the node it points
\* to is deleted: reading through it is undefined.
ValidRef(h, ref) == ref \in DOMAIN h /\ IsTestNode(h[ref])

value(h, ref) == h[ref].current_value


\* A variant of the test that lets a source return one value more.
source_exhausted_late(node) == node.current_value > node.bound

\* if (current_value >= bound) return ppl::poll::closed
source_exhausted(node) == node.current_value >= node.bound


\* A variant of the test that skips on odd values.
skips_on_odd(node) == node.current_value % 2 = 1

\* skip_source: if (current_value % 2 == 0) { ++current_value; return empty; }
skips(node) == node.current_value % 2 = 0

\* poll_next() of the node object at address o in heap h: the set of the
\* possible outcomes, each the heap after the call, the poll value, and
\* whether the call was undefined.  An unknown poll_next may return any value.
poll_next(h, o) ==
    LET node == h[o]
        done(h2, res) == [h |-> h2, res |-> res, undefined |-> FALSE]
    IN  IF ~IsTestNode(node) THEN {done(h, res) : res \in Polls}
        ELSE CASE node.cls = "flex_source" ->
                    IF source_exhausted(node) THEN {done(h, "closed")}
                    ELSE {done([h EXCEPT ![o].current_value = @ + 1], "ready")}
               [] node.cls = "skip_source" ->
                    IF source_exhausted(node) THEN {done(h, "closed")}
                    ELSE IF skips(node)
                    THEN {done([h EXCEPT ![o].current_value = @ + 1], "empty")}
                    ELSE {done([h EXCEPT ![o].current_value = @ + 1], "ready")}
               [] node.cls = "test_component" ->
                    IF ValidRef(h, node.slot[0]) /\ ValidRef(h, node.slot[1])
                    THEN {done([h EXCEPT ![o].current_value =
                                   value(h, node.slot[0]) + value(h, node.slot[1])],
                               "ready")}
                    ELSE {[h |-> h, res |-> "ready", undefined |-> TRUE]}
               [] node.cls = "stream_sink" ->
                    IF ValidRef(h, node.slot[0])
                    THEN {done([h EXCEPT ![o].stream = Append(@, value(h, node.slot[0]))],
                               "ready")}
                    ELSE {[h |-> h, res |-> "ready", undefined |-> TRUE]}

\* The state of one tick: the heap, the memo `visited`, the log of the
\* poll_next calls made (id and value returned, in call order), the value the
\* last call of polling returned, and how the tick went wrong, if it did:
\* "recursion" when polling re-enters a node it is still evaluating (the
\* recursion of the code never returns), "undefined" after an undefined read.
Tick(h) == [h |-> h, visited |-> << >>, polled |-> << >>, res |-> "ready", bad |-> "none"]

\* A variant of the memo test that never finds an entry.
memo_never(st, src) == FALSE

\* visited.contains(src)
memo_contains(st, src) == src \in DOMAIN st.visited

\* visited[src] = res
memo_store(st, src, res) ==
    [st EXCEPT !.visited = [x \in DOMAIN st.visited \cup {src} |->
                               IF x = src THEN res ELSE st.visited[x]],
               !.res = res]


\* A variant of the short circuit that stores closed in both branches.
inherit_as_closed(st, src, res) == memo_store(st, src, "closed")


\* A variant of the short circuit that stores ready in both branches.
inherit_as_ready(st, src, res) == memo_store(st, src, "ready")

\* visited[src] = poll::empty / poll::closed; return it (the short circuit).
inherit(st, src, res) == memo_store(st, src, res)


\* A variant of the call that unlinks a node that returns closed from its
\* dependents.
polling_poll_unlinks_closed(p, src, st) ==
    {LET h2 == IF r.res = "closed"
               THEN [r.h EXCEPT ![get_node(p, src)].dependencies_ = << >>]
               ELSE r.h
         st2 == [st EXCEPT !.h = h2, !.polled = Append(@, <<src, r.res>>)]
     IN  IF r.undefined THEN [st2 EXCEPT !.bad = "undefined"]
         ELSE memo_store(st2, src, r.res)
       : r \in poll_next(st.h, get_node(p, src))}

\* visited[src] = node->poll_next(): one tick state per outcome of the call.
polling_poll(p, src, st) ==
    {LET st2 == [st EXCEPT !.h = r.h, !.polled = Append(@, <<src, r.res>>)]
     IN  IF r.undefined THEN [st2 EXCEPT !.bad = "undefined"]
         ELSE memo_store(st2, src, r.res)
       : r \in poll_next(st.h, get_node(p, src))}

\* The lambda polling of step and its loop over the connections of the node:
\* the set of the tick states the call may end in.  path holds the nodes
\* whose evaluation has begun and not ended.
RECURSIVE polling(_, _, _, _, _), polling_loop(_, _, _, _, _, _)
polling(p, src, st, path, ord) ==
    IF st.bad # "none" THEN {st}
    ELSE IF memo_contains(st, src) THEN {[st EXCEPT !.res = st.visited[src]]}
    ELSE IF src \in path THEN {[st EXCEPT !.bad = "recursion"]}
    ELSE polling_loop(p, src, upstream_in_order(node_of(p, src).connections_, ord),
                      st, path \cup {src}, ord)

\* A variant of the loop that goes on to the next connection, and then to
\* poll_next, whatever an upstream returned.
polling_loop_without_short_circuit(p, src, ups, st, path, ord) ==
    IF ups = << >> THEN polling_poll(p, src, st)
    ELSE UNION {IF r.bad # "none" THEN {r}
                ELSE polling_loop(p, src, Tail(ups), r, path, ord)
                  : r \in polling(p, Head(ups), st, path, ord)}

polling_loop(p, src, ups, st, path, ord) ==
    IF ups = << >> THEN polling_poll(p, src, st)
    ELSE UNION {IF r.bad # "none" THEN {r}
                ELSE IF r.res = "empty" THEN {inherit(r, src, "empty")}
                ELSE IF r.res = "closed" THEN {inherit(r, src, "closed")}
                ELSE polling_loop(p, src, Tail(ups), r, path, ord)
                  : r \in polling(p, Head(ups), st, path, ord)}


\* A variant of the update that assigns the flag from the last sink alone.
last_sink_closed(is_all_closed, res) == res = "closed"

\* if (polling(id, ...) != poll::closed) is_all_closed = false
still_all_closed(is_all_closed, res) == is_all_closed /\ res = "closed"

\* The loop of step over nodes_: polling from every sink, in id order.
RECURSIVE step_loop(_, _, _, _, _)
step_loop(p, ids, st, is_all_closed, ord) ==
    IF ids = << >> \/ st.bad # "none"
    THEN {[st |-> st, is_all_closed |-> is_all_closed]}
    ELSE IF get_output_type(node_of(p, Head(ids)).kind) = "void"
         THEN UNION {step_loop(p, Tail(ids), r, still_all_closed(is_all_closed, r.res),
                               ord)
                       : r \in polling(p, Head(ids), st, {}, ord)}
         ELSE step_loop(p, Tail(ids), st, is_all_closed, ord)

\* The ticks step() may perform in the current state.
step_results(p, ord) ==
    step_loop(p, SortedIds(DOMAIN nodes_[p]), Tick(heap), TRUE, ord)

\* What step() reports: the value returned, the memo at the end of the tick
\* and the poll_next calls made.
StepReport(r) ==
    [is_all_closed |-> r.is_all_closed,
     visited       |-> r.st.visited,
     polled        |-> r.st.polled]

\* pipeline::step.  A tick that goes wrong never returns.
step(p) ==
    /\ constructed[p]
    /\ \E ord \in Orders :
          \E r \in step_results(p, ord) :
             IF r.st.bad # "none"
             THEN /\ last' = Call("step", r.st.bad, 0, {})
                  /\ UNCHANGED heap
             ELSE /\ last' = Call("step", "none", StepReport(r), {})
                  /\ heap' = r.st.h
    /\ UNCHANGED <<host, constructed, nodes_, current_id, next_obj, returned, erased,
                   moves>>

\* while (!step()) {}
run_again_while_true(is_all_closed) == is_all_closed

run_again(is_all_closed) == ~is_all_closed

\* pipeline::run: entry, and one evaluation of the loop condition.
run(p) ==
    /\ constructed[p]
    /\ run_pc # "loop"
    /\ ticks < MaxTicks
    /\ run_pc' = "loop"
    /\ last' = Call("run", "none", 0, {})
    /\ UNCHANGED <<host, constructed, nodes_, current_id, heap, next_obj, returned,
                   erased, moves, ticks>>

run_step(p) ==
    /\ run_pc = "loop"
    /\ ticks < MaxTicks
    /\ step(p)
    /\ ticks' = ticks + 1
    /\ run_pc' = IF last'.err # "none" \/ run_again(last'.ret.is_all_closed)
                 THEN "loop" ELSE "returned"

\* A call of step by the host program.
host_step(p) ==
    /\ run_pc # "loop"
    /\ ticks < MaxTicks
    /\ step(p)
    /\ ticks' = ticks + 1
    /\ UNCHANGED run_pc

\* ------------------------------------------------------------ operator<<

\* node->name() of the node classes of the test suite; the names that carry
\* the bound are the pair of the text and the number.
name(node) ==
    IF IsTestNode(node)
    THEN CASE node.cls = "flex_source"    -> <<"FlexSource: Bound = ", node.bound>>
           [] node.cls = "skip_source"    -> <<"SkipSource: Bound = ", node.bound>>
           [] node.cls = "test_component" -> <<"TestComponent">>
           [] node.cls = "stream_sink"    -> <<"TestSink">>
    ELSE CASE node.kind = "source"      -> <<"SimpleSource">>
           [] node.kind = "component"   -> <<"TestComponent">>
           [] node.kind = "sink"        -> <<"TestSink">>
           [] node.kind = "sink_double" -> <<"TestSinkDouble">>

\* ss << node_id << " " << node->name(): the label of a node, the text
\* between the quotes of std::quoted.
label(p, id) == <<id>> \o name(node_of(p, id))

\* The rearrangements of a vector.
Arrangements(q) ==
    {[i \in DOMAIN q |-> q[f[i]]] :
        f \in {g \in [DOMAIN q -> DOMAIN q] :
                 \A i, j \in DOMAIN q : g[i] = g[j] => i = j}}


\* A variant of the sort that leaves the vector as it is.
sort_by_first_skipped(q) == {q}

\* std::sort(dependencies, a.first < b.first): std::sort is not stable, so
\* the result is any rearrangement in which no entry comes before one with a
\* smaller first component.
sort_by_first(q) ==
    {s \in Arrangements(q) :
        \A i, j \in DOMAIN s : i < j => ~(s[j][1] < s[i][1])}

\* The first loop of operator<<: one line per entry of nodes_, in id order.
node_lines(p) ==
    LET ids == SortedIds(DOMAIN nodes_[p])
    IN  [i \in DOMAIN ids |-> <<label(p, ids[i])>>]

\* The inner loop of operator<< over the sorted copy of the dependencies of
\* node node_id: one line start -> end per entry.
edge_lines_of(p, node_id, dependencies) ==
    [i \in DOMAIN dependencies |->
        <<label(p, node_id), "->", label(p, dependencies[i][1])>>]

\* The second loop of operator<<: the possible edge lines, node by node in
\* id order.
RECURSIVE edge_lines(_, _)
edge_lines(p, ids) ==
    IF ids = << >> THEN {<< >>}
    ELSE {edge_lines_of(p, Head(ids), dependencies) \o rest :
             dependencies \in sort_by_first(node_of(p, Head(ids)).dependencies_),
             rest \in edge_lines(p, Tail(ids))}

\* pipeline.get_node(item.first)->name() dereferences the node of every
\* dependency without a null check.
stream_derefs_live(p) ==
    \A id \in DOMAIN nodes_[p] :
       \A item \in Entries(node_of(p, id).dependencies_) : get_node(p, item[1]) # NULL

\* The texts operator<< may write, as the sequence of their lines; a line is
\* the sequence of its parts.
rendering(p) ==
    {<<<<"digraph G {">>>> \o node_lines(p) \o <<<<"">>>> \o edges \o <<<<"}">>>> :
        edges \in edge_lines(p, SortedIds(DOMAIN nodes_[p]))}

\* operator<<(std::ostream&, const pipeline&)
stream_out(p) ==
    /\ constructed[p]
    /\ IF stream_derefs_live(p)
       THEN \E out \in rendering(p) : last' = Call("operator<<", "none", out, {})
       ELSE last' = Call("operator<<", "undefined", << >>, {})
    /\ UNCHANGED <<host, run_pc, ticks, constructed, nodes_, current_id, heap, next_obj,
                   returned, erased, moves>>

\* ------------------------------------------------------- specifications

Edit(p) ==
    \/ \E k \in Kinds : create_node(p, k)
    \/ \E n_id \in IdArgs : erase_node(p, n_id)
    \/ \E src \in IdArgs, dst \in IdArgs, slot \in SlotArgs : connect(p, src, dst, slot)
    \/ \E src \in IdArgs, dst \in IdArgs : disconnect(p, src, dst)
    \/ \E src \in IdArgs : get_dependencies(p, src)

Next == Edit(1) \/ is_valid(1)

Spec == Init /\ [][Next]_vars



\* Editing calls, is_valid, and ticks of the pipeline being edited; the
\* poll_next of its nodes may return anything.
NextTick ==
    \/ Edit(1)
    \/ is_valid(1)
    \/ step(1) /\ UNCHANGED <<run_pc, ticks>>

SpecTick == Init /\ [][NextTick]_vars

\* Editing calls and renderings of the graph.
NextDot == Edit(1) \/ stream_out(1)

SpecDot == Init /\ [][NextDot]_vars

\* Two pipeline objects, p (constructed first) and p2: the calls that build
\* and edit a graph and return normally, and construction and moves.
NextMove ==
    \/ \E p \in Pipes :
          \/ \E k \in Kinds : create_node(p, k)
          \/ \E n_id \in IdArgs :
                erase_node_error(p, n_id) = "none" /\ erase_node(p, n_id)
          \/ \E src \in IdArgs, dst \in IdArgs, slot \in SlotArgs :
                connect_error(p, src, dst, slot) = "none" /\ connect(p, src, dst, slot)
          \/ default_construct(p)
    \/ \E p \in Pipes, other \in Pipes :
          \/ move_construct(p, other)
          \/ move_assign(p, other)

SpecMove == Init /\ [][NextMove]_vars

\* The pipeline of Test Case 20 after its five create_node calls: two
\* sources, a component and two sinks under the ids 1..5.  The node with id n
\* has address n.
TestIds == 1..5

BuiltNodes == [p \in Pipes |-> IF p = 1 THEN [n \in TestIds |-> n] ELSE << >>]

\* The connect calls of Test Case 20, as (dst, slot), in the order of the test.
ConnectOrder == <<<<3, 0>>, <<3, 1>>, <<4, 0>>, <<5, 0>>>>

\* A wiring tells for each (dst, slot) which node is connected to it, NULL
\* for none.  wire makes the connect calls of a wiring, in the order of the
\* test, leaving out the slots that stay empty.
RECURSIVE wire(_, _, _)
wire(h, w, k) ==
    IF k > Len(ConnectOrder) THEN h
    ELSE LET dst == ConnectOrder[k][1]
             slot == ConnectOrder[k][2]
             src == w[ConnectOrder[k]]
         IN  IF src = NULL THEN wire(h, w, k + 1)
             ELSE wire(connect_src(connect_dst(h, src, dst, src, slot), src, dst, slot),
                       w, k + 1)

\* The state after the create_node calls and the connect calls of wiring w
\* on the node objects h0.
Built(h0, w) ==
    /\ constructed = [p \in Pipes |-> p = 1]
    /\ nodes_ = BuiltNodes
    /\ current_id = [p \in Pipes |-> IF p = 1 THEN Len(h0) + 1 ELSE 1]
    /\ heap = wire(h0, w, 1)
    /\ next_obj = Len(h0) + 1
    /\ returned = [p \in Pipes |-> IF p = 1 THEN [n \in TestIds |-> n] ELSE << >>]
    /\ erased = [p \in Pipes |-> {}]
    /\ moves = 0
    /\ last = NoCall
    /\ run_pc = "idle"
    /\ ticks = 0
    /\ host = HostStart

\* Every wiring of the five nodes that connect accepts: each slot of the
\* component and of the sinks is empty or filled by a source or the component.
Wirings == [Range(ConnectOrder) -> {NULL, 1, 2, 3}]

UnknownNodes ==
    <<NewNode("source"), NewNode("source"), NewNode("component"),
      NewNode("sink"), NewNode("sink")>>

InitStep == \E w \in Wirings : Built(UnknownNodes, w)

\* Ticks of a pipeline whose nodes' poll_next may return anything.
NextStep ==
    \/ step(1) /\ UNCHANGED <<run_pc, ticks>>
    \/ is_valid(1)

SpecStep == InitStep /\ [][NextStep]_vars

\* Scenario S1 (Test Cases 20 and 23): flex_source(a) and flex_source(b) feed
\* slots 0 and 1 of a test_component that feeds stream_sink A; the second
\* source also feeds stream_sink B.
BoundA == 5

BoundB == 10

S1Wiring == (<<3, 0>> :> 1) @@ (<<3, 1>> :> 2) @@ (<<4, 0>> :> 3) @@ (<<5, 0>> :> 2)

S1Nodes(a, b) ==
    <<NewTestNode("source", "flex_source", a),
      NewTestNode("source", "flex_source", b),
      NewTestNode("component", "test_component", 0),
      NewTestNode("sink", "stream_sink", 0),
      NewTestNode("sink", "stream_sink", 0)>>

InitS1 == \E a \in 0..BoundA, b \in 0..BoundB : Built(S1Nodes(a, b), S1Wiring)


\* Scenario S2 (Test Cases 21 and 24): as S1 with a skip_source(a) in the
\* place of the first source.
SkipBound == 6

S2Nodes(a, b) ==
    <<NewTestNode("source", "skip_source", a),
      NewTestNode("source", "flex_source", b),
      NewTestNode("component", "test_component", 0),
      NewTestNode("sink", "stream_sink", 0),
      NewTestNode("sink", "stream_sink", 0)>>

InitS2 == \E a \in 0..SkipBound, b \in 0..BoundB : Built(S2Nodes(a, b), S1Wiring)

\* The host drives the pipeline by step() calls or by run().
NextS1 ==
    \/ host_step(1)
    \/ run(1)
    \/ run_step(1)

SpecS1 == InitS1 /\ [][NextS1]_vars


SpecS2 == InitS2 /\ [][NextS1]_vars


\* ------------------------------------------------- replacing sources

\* The source objects the tests construct: flex_source(5), skip_source(6),
\* flex_source(10).
SourceNodes ==
    {NewTestNode("source", "flex_source", BoundA),
     NewTestNode("source", "skip_source", SkipBound),
     NewTestNode("source", "flex_source", BoundB)}

\* The ids of the live sources of pipeline p.
SourceIds(p) == {n \in DOMAIN nodes_[p] : node_of(p, n).kind = "source"}

\* The host stops driving the pipeline and begins to replace nodes (Test
\* Case 22 after its sixth step, Test Case 25 after its first run).
begin_repair ==
    /\ host.pc = "first"
    /\ run_pc # "loop"
    /\ host' = [pc |-> "repair", at |-> ticks]
    /\ UNCHANGED <<constructed, nodes_, current_id, heap, next_obj, returned, erased,
                   moves, last, run_pc, ticks>>

\* REQUIRE(p.is_valid()) after the replacement: the host goes on to drive
\* the pipeline only when is_valid is true.
resume ==
    /\ host.pc = "repair"
    /\ \A ord \in Orders : is_valid_result(1, ord)
    /\ host' = [host EXCEPT !.pc = "second"]
    /\ UNCHANGED <<constructed, nodes_, current_id, heap, next_obj, returned, erased,
                   moves, last, run_pc, ticks>>

\* A host that drives the pipeline by step() and run(), replaces sources
\* once (erase_node, create_node and connect calls in any order and number),
\* and drives the pipeline again.
NextRepair ==
    \/ host.pc # "repair" /\ host_step(1)
    \/ host.pc # "repair" /\ run(1)
    \/ run_step(1)
    \/ begin_repair
    \/ host.pc = "repair" /\ \E n \in SourceIds(1) : erase_node(1, n)
    \/ host.pc = "repair" /\ next_obj <= MaxNodes
          /\ \E node \in SourceNodes : create_node_of(1, node)
    \/ host.pc = "repair"
          /\ \E src \in SourceIds(1), e \in Range(ConnectOrder) :
                pipeline_connect(1, src, e[1], e[2])
    \/ host.pc = "repair" /\ is_valid(1)
    \/ resume

\* The pipeline of scenario S1 (Test Case 22), then replacements.
InitR1 == Built(S1Nodes(BoundA, BoundB), S1Wiring)

SpecR1 == InitR1 /\ [][NextRepair]_vars

\* The pipeline of scenario S2 (Test Case 25), then replacements.
InitR2 == Built(S2Nodes(SkipBound, BoundB), S1Wiring)

SpecR2 == InitR2 /\ [][NextRepair]_vars

\* One more iteration of the loop of run: the tick counter advances while
\* control is inside the loop. Every such step of NextS1 is a run_step, and
\* step always produces a result, so this is enabled exactly when run_step is.
run_iterates ==
    /\ run_pc = "loop"
    /\ ticks < MaxTicks
    /\ ticks' = ticks + 1

\* The loop of run keeps executing: a thread inside `while (!step()) {}`
\* is not suspended forever.
SpecS1Fair == SpecS1 /\ WF_ticks(run_iterates)

\* ======================================================================
\* Properties of the registry and of the editing operations
\* ======================================================================

\* The ids that are live in pipeline p.
Live(p) == DOMAIN nodes_[p]

\* The number of entries of a vector that equal e.
CountIn(q, e) == Cardinality({i \in DOMAIN q : q[i] = e})

\* Some call sequence has filled a slot of pipeline 1.
SomeConnection == \E n \in Live(1) : DOMAIN node_of(1, n).connections_ # {}

\* C1: mirror invariant.  After any sequence of create_node, connect,
\* disconnect and erase_node calls, successful or failing, every entry
\* (slot -> up) of a live node n names a live node up whose dependencies_
\* hold exactly one entry (n, slot); and every entry (d, s) of a live node
\* u's dependencies_ names a live node d with d.connections_[s] = u.
C1_Mirror ==
    /\ \A n \in Live(1) : nodes_[1][n] \in DOMAIN heap
    /\ \A n \in Live(1) : \A slot \in DOMAIN node_of(1, n).connections_ :
          LET up == node_of(1, n).connections_[slot]
          IN  /\ up \in Live(1)
              /\ CountIn(node_of(1, up).dependencies_, <<n, slot>>) = 1
    /\ \A u \in Live(1) : \A item \in Entries(node_of(1, u).dependencies_) :
          /\ item[1] \in Live(1)
          /\ item[2] \in DOMAIN node_of(1, item[1]).connections_
          /\ node_of(1, item[1]).connections_[item[2]] = u

\* A node was erased that had neighbours, and connections remain.
C1_Witness ==
    /\ last.op = "erase_node"
    /\ last.err = "none"
    /\ Cardinality(last.touched) >= 2
    /\ SomeConnection

\* The preconditions of connect, as the specification lists them.
InvalidNodeId(src, dst) == src \notin Live(1) \/ dst \notin Live(1)

SlotAlreadyUsed(dst, slot) ==
    dst \in Live(1) /\ slot \in DOMAIN node_of(1, dst).connections_

Arity(id) == Len(get_input_types(node_of(1, id).kind))

NoSuchSlot(dst, slot) == dst \in Live(1) /\ (slot < 0 \/ slot >= Arity(dst))

TypeMismatch(src, dst, slot) ==
    /\ src \in Live(1) /\ dst \in Live(1)
    /\ slot >= 0 /\ slot < Arity(dst)
    /\ get_output_type(node_of(1, src).kind)
          # get_input_types(node_of(1, dst).kind)[slot + 1]

\* The violated preconditions of a call, in the order of the specification.
Violated(src, dst, slot) ==
    SelectSeq(<<"invalid_node_id", "slot_already_used", "no_such_slot",
                "connection_type_mismatch">>,
              LAMBDA kind :
                 \/ kind = "invalid_node_id" /\ InvalidNodeId(src, dst)
                 \/ kind = "slot_already_used" /\ SlotAlreadyUsed(dst, slot)
                 \/ kind = "no_such_slot" /\ NoSuchSlot(dst, slot)
                 \/ kind = "connection_type_mismatch" /\ TypeMismatch(src, dst, slot))

\* C2: error ordering.  In every state the pipeline can reach, a connect
\* call that violates more than one precondition throws the first violated
\* one in the order invalid_node_id, slot_already_used, no_such_slot,
\* connection_type_mismatch.
C2_ErrorOrdering ==
    \A src \in IdArgs, dst \in IdArgs, slot \in SlotArgs :
       Len(Violated(src, dst, slot)) >= 2
          => connect_error(1, src, dst, slot) = Head(Violated(src, dst, slot))

\* A connect call into a slot in use, from a source of the wrong type, has
\* been rejected (a failing call leaves the graph as it was, so the call
\* whose arguments are named here ended in this state).
C2_Witness ==
    /\ last.op = "connect"
    /\ last.err = "slot_already_used"
    /\ \E src \in IdArgs, dst \in IdArgs, slot \in SlotArgs :
          /\ SlotAlreadyUsed(dst, slot)
          /\ TypeMismatch(src, dst, slot)
          /\ connect_error(1, src, dst, slot) = last.err

\* C3: atomic failure.  A connect or erase_node call that fails with a
\* pipeline_error leaves the live nodes, every node's connections and every
\* node's dependencies as they were.
C3_AtomicFailure ==
    [][(last'.op \in {"connect", "erase_node"} /\ last'.err # "none")
          => UNCHANGED <<nodes_, heap>>]_vars

\* A connect was rejected for its types in a graph that has connections.
C3_Witness ==
    /\ last.op = "connect"
    /\ last.err = "connection_type_mismatch"
    /\ SomeConnection

\* C4: ids.  Without moves, the ids create_node returns start at 1 and are
\* strictly increasing (so pairwise distinct, and an erased id is never
\* returned again), and get_node(id) is non-null exactly for the ids that
\* were returned and not yet erased.
C4_Ids ==
    /\ returned[1] # << >> => returned[1][1] = 1
    /\ \A i \in DOMAIN returned[1], j \in DOMAIN returned[1] :
          i < j => returned[1][i] < returned[1][j]
    /\ last.op = "create_node" => last.ret = returned[1][Len(returned[1])]
    /\ erased[1] \subseteq Entries(returned[1])
    /\ \A id \in 0..(MaxObj + 1) :
          get_node(1, id) # NULL <=> id \in Entries(returned[1]) \ erased[1]

\* A node was created after another one had been erased.
C4_Witness ==
    /\ last.op = "create_node"
    /\ erased[1] # {}
    /\ Len(returned[1]) >= 2

\* The entries of a map m at the keys in ks.
Restrict(m, ks) == [x \in ks |-> m[x]]

\* The node objects other than those in os are the same before and after.
OthersUnchanged(os) ==
    \A o \in DOMAIN heap \ os : o \in DOMAIN heap' /\ heap'[o] = heap[o]

\* C5: effect of a successful connect.  A connect(src, dst, slot) with both
\* ids live, the slot free and in range and the types equal succeeds; it
\* binds src into the slot of dst through the connect callback, adds exactly
\* slot -> src to dst.connections_ and exactly one entry (dst, slot) to
\* src.dependencies_, and changes nothing else.
C5_ConnectAccepted ==
    \A src \in IdArgs, dst \in IdArgs, slot \in SlotArgs :
       Violated(src, dst, slot) = << >> => connect_error(1, src, dst, slot) = "none"

C5_ConnectStep(src, dst, slot) ==
    LET s == nodes_[1][src]
        d == nodes_[1][dst]
        old == heap[s].dependencies_
        new == heap'[s].dependencies_
    IN  /\ nodes_' = nodes_
        /\ DOMAIN heap' = DOMAIN heap
        /\ heap'[d].slot = [heap[d].slot EXCEPT ![slot] = s]
        /\ slot \notin DOMAIN heap[d].connections_
        /\ DOMAIN heap'[d].connections_ = DOMAIN heap[d].connections_ \cup {slot}
        /\ heap'[d].connections_[slot] = src
        /\ Restrict(heap'[d].connections_, DOMAIN heap[d].connections_)
              = heap[d].connections_
        /\ Len(new) = Len(old) + 1
        /\ \A e \in Entries(new) \cup Entries(old) :
              CountIn(new, e) = CountIn(old, e) + (IF e = <<dst, slot>> THEN 1 ELSE 0)
        /\ heap'[d].kind = heap[d].kind /\ heap'[s].kind = heap[s].kind
        /\ s # d => /\ heap'[d].dependencies_ = heap[d].dependencies_
                    /\ heap'[s].connections_ = heap[s].connections_
                    /\ heap'[s].slot = heap[s].slot
        /\ OthersUnchanged({s, d})

C5_ConnectEffect ==
    /\ []C5_ConnectAccepted
    /\ [][(last'.op = "connect" /\ last'.err = "none")
            => \A src \in IdArgs, dst \in IdArgs, slot \in SlotArgs :
                  connect(1, src, dst, slot) => C5_ConnectStep(src, dst, slot)]_vars

\* A source has been connected into the second slot of a component whose
\* first slot it already filled.
C5_Witness ==
    /\ last.op = "connect"
    /\ last.err = "none"
    /\ \E src \in Live(1), dst \in Live(1) :
          /\ last.touched = {src, dst}
          /\ src # dst
          /\ DOMAIN node_of(1, dst).connections_ = {0, 1}
          /\ Range(node_of(1, dst).connections_) = {src}
          /\ node_of(1, dst).slot = [x \in {0, 1} |-> nodes_[1][src]]
          /\ Len(node_of(1, src).dependencies_) = 2

\* C6: effect of disconnect.  disconnect(src, dst) with both ids live raises
\* no error; it removes from dst.connections_ exactly the slots mapped to
\* src, clears them through dst.connect(null, s), removes from
\* src.dependencies_ exactly the entries whose downstream id is dst, and
\* changes nothing else; when src feeds no slot of dst nothing changes.
C6_DisconnectStep(src, dst) ==
    LET s == nodes_[1][src]
        d == nodes_[1][dst]
        removed == {x \in DOMAIN heap[d].connections_ : heap[d].connections_[x] = src}
    IN  /\ last'.err = "none"
        /\ nodes_' = nodes_
        /\ DOMAIN heap' = DOMAIN heap
        /\ heap'[d].connections_
              = Restrict(heap[d].connections_, DOMAIN heap[d].connections_ \ removed)
        /\ heap'[d].slot
              = [x \in DOMAIN heap[d].slot |->
                    IF x \in removed THEN NULL ELSE heap[d].slot[x]]
        /\ heap'[s].dependencies_
              = SelectSeq(heap[s].dependencies_, LAMBDA item : item[1] # dst)
        /\ heap'[d].kind = heap[d].kind /\ heap'[s].kind = heap[s].kind
        /\ s # d => /\ heap'[d].dependencies_ = heap[d].dependencies_
                    /\ heap'[s].connections_ = heap[s].connections_
                    /\ heap'[s].slot = heap[s].slot
        /\ OthersUnchanged({s, d})
        /\ removed = {} => UNCHANGED <<nodes_, heap>>

C6_DisconnectEffect ==
    [][last'.op = "disconnect"
         => \A src \in Live(1), dst \in Live(1) :
               disconnect(1, src, dst) => C6_DisconnectStep(src, dst)]_vars

\* A disconnect has removed connections of a node that keeps another one.
C6_Witness ==
    /\ last.op = "disconnect"
    /\ last.err = "none"
    /\ last.touched # {}
    /\ \E dst \in last.touched : DOMAIN node_of(1, dst).connections_ # {}

\* C7: effect of a successful erase_node(id).  The node leaves the
\* registry; every entry (id, slot) leaves the dependencies_ of the other
\* nodes; exactly the slots id fed leave the connections_ of the other
\* nodes; the other nodes stay live and nothing else of the bookkeeping
\* changes.
C7_EraseStep(id) ==
    /\ Live(1)' = Live(1) \ {id}
    /\ nodes_[1][id] \notin DOMAIN heap'
    /\ \A n \in Live(1) \ {id} :
          LET o == nodes_[1][n]
          IN  /\ nodes_'[1][n] = o
              /\ o \in DOMAIN heap'
              /\ heap'[o].kind = heap[o].kind
              /\ heap'[o].dependencies_
                    = SelectSeq(heap[o].dependencies_, LAMBDA item : item[1] # id)
              /\ heap'[o].connections_
                    = Restrict(heap[o].connections_,
                               {x \in DOMAIN heap[o].connections_ :
                                   heap[o].connections_[x] # id})

C7_EraseEffect ==
    /\ [](\A id \in Live(1) : erase_node_error(1, id) = "none")
    /\ [][(last'.op = "erase_node" /\ last'.err = "none")
            => \A id \in Live(1) : erase_node(1, id) => C7_EraseStep(id)]_vars

\* A node with an upstream and a downstream node has been erased, and both
\* neighbours are live with the slot and the entry gone.
C7_Witness ==
    /\ last.op = "erase_node"
    /\ last.err = "none"
    /\ Cardinality(last.touched) = 3
    /\ Cardinality(Live(1)) = 2
    /\ \A n \in Live(1) :
          /\ node_of(1, n).connections_ = << >>
          /\ node_of(1, n).dependencies_ = << >>

\* C8: invalid ids.  erase_node, disconnect and get_dependencies throw
\* invalid_node_id whenever an id argument is not live (never created or
\* erased), and then leave the pipeline as it was.
C8_Rejected ==
    /\ \A id \in IdArgs \ Live(1) :
          /\ erase_node_error(1, id) = "invalid_node_id"
          /\ get_dependencies_error(1, id) = "invalid_node_id"
    /\ \A src \in IdArgs, dst \in IdArgs :
          (src \notin Live(1) \/ dst \notin Live(1))
             => disconnect_error(1, src, dst) = "invalid_node_id"

C8_InvalidIds ==
    /\ []C8_Rejected
    /\ [][(/\ last'.op \in {"erase_node", "disconnect", "get_dependencies"}
           /\ last'.err # "none")
            => UNCHANGED <<constructed, nodes_, current_id, heap, next_obj>>]_vars

\* An erase_node of an id that was erased before has been rejected while
\* other nodes are connected.
C8_Witness ==
    /\ last.op = "erase_node"
    /\ last.err = "invalid_node_id"
    /\ erased[1] # {}
    /\ SomeConnection

\* C9: move semantics.  After p2 = move(p), by move construction or move
\* assignment between distinct pipelines, get_node on p is absent for every
\* id that was live in p, get_node on p2 returns the original node of each
\* of those ids with its connections and dependencies as they were, and a
\* further create_node on p succeeds and its node is retrievable through
\* get_node on p.
MoveOps == {"move_construct", "move_assign"}

\* What get_node(p, n_id) returns after the step.
NodeAfter(p, n_id) ==
    IF n_id \in DOMAIN nodes_'[p] THEN nodes_'[p][n_id] ELSE NULL

C9_MoveStep(p2, p) ==
    \A id \in Live(p) :
       /\ NodeAfter(p, id) = NULL
       /\ NodeAfter(p2, id) = get_node(p, id)
       /\ get_node(p, id) \in DOMAIN heap'
       /\ heap'[get_node(p, id)] = heap[get_node(p, id)]

C9_CreateStep(p, k) ==
    /\ last'.err = "none"
    /\ NodeAfter(p, last'.ret) # NULL
    /\ NodeAfter(p, last'.ret) \notin DOMAIN heap
    /\ heap'[NodeAfter(p, last'.ret)].kind = k

C9_MoveSemantics ==
    [][/\ last'.op \in MoveOps
          => \A p2 \in Pipes, p \in Pipes :
                (p2 # p /\ last'.ret = <<p2, p>>) => C9_MoveStep(p2, p)
       /\ (last.op \in MoveOps /\ last'.op = "create_node")
          => \A p \in Pipes, k \in Kinds :
                (last.ret[1] # p /\ last.ret[2] = p /\ create_node(p, k))
                   => C9_CreateStep(p, k)]_vars

\* Two connected nodes of the first pipeline have moved to the second one,
\* and the first pipeline has created a node after that.
C9_Witness ==
    /\ last.op = "create_node"
    /\ moves = 1
    /\ Live(2) = {1, 2}
    /\ \E n \in Live(2) : DOMAIN node_of(2, n).connections_ # {}
    /\ \E n \in Live(2) : node_of(2, n).dependencies_ # << >>
    /\ Live(1) = {3}
    /\ DOMAIN heap = {1, 2, 3}

\* The nodes a node reads from.
Upstream(n) == Range(node_of(1, n).connections_)

RECURSIVE ReachableUpstream(_, _)
ReachableUpstream(S, k) ==
    IF k = 0 THEN S
    ELSE ReachableUpstream(S \cup UNION {Upstream(x) : x \in S}, k - 1)

HasDirectedCycle ==
    \E n \in Live(1) : n \in ReachableUpstream(Upstream(n), MaxObj)

\* C10: is_valid returns false for every pipeline whose graph has a
\* directed cycle, a cycle that is not upstream of any sink and a component
\* wired into its own slot included, whatever else holds of the graph.
C10_CyclesRejected ==
    (last.op = "is_valid" /\ HasDirectedCycle) => last.ret = FALSE

\* ------------------------------------------------ claims on is_valid

\* The conditions of a valid pipeline, read off the graph of pipeline 1.
SlotsFilled ==
    \A n \in Live(1) : Cardinality(DOMAIN node_of(1, n).connections_) = Arity(n)

ProducersHaveDependents ==
    \A n \in Live(1) :
       get_output_type(node_of(1, n).kind) # "void"
          => Len(node_of(1, n).dependencies_) >= 1

HasSink == \E n \in Live(1) : get_output_type(node_of(1, n).kind) = "void"

HasSource == \E n \in Live(1) : Arity(n) = 0

\* a and b are joined by a connections or a dependencies entry of either.
Linked(a, b) ==
    \/ b \in Range(node_of(1, a).connections_)
    \/ a \in Range(node_of(1, b).connections_)
    \/ \E item \in Entries(node_of(1, a).dependencies_) : item[1] = b
    \/ \E item \in Entries(node_of(1, b).dependencies_) : item[1] = a

RECURSIVE ReachableUndirected(_, _)
ReachableUndirected(S, k) ==
    IF k = 0 THEN S
    ELSE ReachableUndirected(
            S \cup {b \in Live(1) : \E a \in S : Linked(a, b)}, k - 1)

WeaklyConnected ==
    \A a \in Live(1) : ReachableUndirected({a}, Cardinality(Live(1))) = Live(1)

\* C11: is_valid returns true only if every node has all its slots filled,
\* every node with a non-void output has a dependencies entry, and the
\* pipeline has a sink and a source; so it is false on the empty pipeline
\* and on a pipeline without a sink.
C11_ValidOnlyIf ==
    (last.op = "is_valid" /\ last.ret = TRUE)
       => SlotsFilled /\ ProducersHaveDependents /\ HasSink /\ HasSource

\* is_valid has returned true on a pipeline of three nodes.
C11_Witness ==
    /\ last.op = "is_valid"
    /\ last.ret = TRUE
    /\ Cardinality(Live(1)) = 3

\* C12: is_valid returns false whenever the graph, read as undirected, has
\* more than one connected component.
C12_DisconnectedRejected ==
    (last.op = "is_valid" /\ ~WeaklyConnected) => last.ret = FALSE

\* is_valid has returned false on a source wired to a sink next to a node
\* that is connected to neither of them.
C12_Witness ==
    /\ last.op = "is_valid"
    /\ last.ret = FALSE
    /\ ~WeaklyConnected
    /\ \E s \in Live(1), k \in Live(1) :
          /\ node_of(1, s).kind = "source"
          /\ node_of(1, k).kind = "sink"
          /\ node_of(1, k).connections_ = (0 :> s)
          /\ node_of(1, s).dependencies_ = <<<<k, 0>>>>
          /\ Live(1) \ {s, k} # {}

\* C13: is_valid returns true for every pipeline that has all slots filled,
\* a dependent for every node with a non-void output, a sink, a source, no
\* directed cycle and one weakly connected component, and it changes no
\* node, connection or dependency.
C13_Accepted ==
    (/\ last.op = "is_valid"
     /\ SlotsFilled /\ ProducersHaveDependents /\ HasSink /\ HasSource
     /\ ~HasDirectedCycle
     /\ WeaklyConnected)
       => last.ret = TRUE

C13_ValidAccepted ==
    /\ []C13_Accepted
    /\ [][last'.op = "is_valid"
            => UNCHANGED <<constructed, nodes_, current_id, heap, next_obj>>]_vars

\* is_valid has returned true on a pipeline in which one source fills both
\* slots of a component.
C13_Witness ==
    /\ last.op = "is_valid"
    /\ last.ret = TRUE
    /\ \E c \in Live(1), s \in Live(1) :
          node_of(1, c).connections_ = (0 :> s @@ 1 :> s)

\* ---------------------------------------------------- claims on step, run

\* A step of pipeline 1 has returned, and what it reported.
StepReturned == last.op = "step" /\ last.err = "none"

Sinks == {n \in Live(1) : get_output_type(node_of(1, n).kind) = "void"}

\* The poll_next calls of the tick, as (id, value returned), and their ids.
PolledIn(report) == {report.polled[i] : i \in DOMAIN report.polled}

PolledIdsIn(report) == {e[1] : e \in PolledIn(report)}

\* What node n observed in the tick; "none" if it was not demanded.
ObservedIn(report, n) ==
    IF n \in DOMAIN report.visited THEN report.visited[n] ELSE "none"

\* The direct and transitive upstream nodes of n.
Ancestors(n) == ReachableUpstream(Upstream(n), Cardinality(Live(1)))

\* The nodes on the paths from ancestor a down to node s, s included.
Between(a, s) == {n \in Live(1) : a \in Ancestors(n) /\ (n = s \/ n \in Ancestors(s))}

\* C14: step returns true if and only if every sink observed closed during
\* the tick, and false as soon as one sink observed ready or empty.
C14_StepResult ==
    StepReturned
       => (last.ret.is_all_closed
             <=> \A s \in Sinks : ObservedIn(last.ret, s) = "closed")

\* step has returned true after the poll_next of one sink returned closed
\* and the other sink inherited closed from its upstream.
C14_Witness ==
    /\ StepReturned
    /\ last.ret.is_all_closed
    /\ \E s \in Sinks : <<s, "closed">> \in PolledIn(last.ret)
    /\ \E s \in Sinks : s \notin PolledIdsIn(last.ret)

\* C15: within one step each node's poll_next is invoked at most once, also
\* for a node reached from several sinks or through a diamond (on every
\* pipeline, the valid ones included).
C15_PolledOnce ==
    StepReturned
       => \A i \in DOMAIN last.ret.polled, j \in DOMAIN last.ret.polled :
             last.ret.polled[i][1] = last.ret.polled[j][1] => i = j

\* A step on a valid pipeline in which the second source feeds both the
\* component and a sink has polled all five nodes.
C15_Witness ==
    /\ StepReturned
    /\ \A ord \in Orders : is_valid_result(1, ord)
    /\ \E u \in Live(1) : Cardinality({e[1] : e \in Entries(node_of(1, u).dependencies_)}) = 2
    /\ PolledIdsIn(last.ret) = Live(1)

\* C16: closure inheritance.  If an ancestor of a sink returns closed from
\* poll_next during a tick, that sink observes closed in the same tick and
\* the poll_next of the sink is not invoked in that tick.
C16_ClosureInheritance ==
    StepReturned
       => \A s \in Sinks : \A a \in Ancestors(s) :
             <<a, "closed">> \in PolledIn(last.ret)
                => /\ ObservedIn(last.ret, s) = "closed"
                   /\ s \notin PolledIdsIn(last.ret)

\* C17 as stated: if an ancestor of a sink returns empty from poll_next, the
\* sink observes empty in the same tick, no node between the ancestor and the
\* sink is polled in that tick, and those nodes are polled on the next tick
\* at which the ancestor returns ready.
C17_EmptyInTick ==
    StepReturned
       => \A s \in Sinks : \A a \in Ancestors(s) :
             <<a, "empty">> \in PolledIn(last.ret)
                => /\ ObservedIn(last.ret, s) = "empty"
                   /\ Between(a, s) \cap PolledIdsIn(last.ret) = {}

\* Two ticks in a row, a returned empty in the first and ready in the second.
EmptyThenReady(a) ==
    /\ StepReturned
    /\ StepReturned'
    /\ <<a, "empty">> \in PolledIn(last.ret)
    /\ <<a, "ready">> \in PolledIn(last'.ret)

C17_AsStated ==
    /\ []C17_EmptyInTick
    /\ [][\A s \in Sinks : \A a \in Ancestors(s) :
             EmptyThenReady(a) => Between(a, s) \subseteq PolledIdsIn(last'.ret)]_vars

\* C17, amended: if an ancestor of a sink returns empty from poll_next, the
\* sink observes empty or closed in the same tick, and empty when no ancestor
\* of it returned closed; no node between the ancestor and the sink is polled
\* in that tick; on the next tick at which the ancestor returns ready each of
\* those nodes is polled if it is demanded and all its upstreams observe
\* ready.
C17_EmptyAmended ==
    StepReturned
       => \A s \in Sinks : \A a \in Ancestors(s) :
             <<a, "empty">> \in PolledIn(last.ret)
                => /\ ObservedIn(last.ret, s) \in {"empty", "closed"}
                   /\ (\A c \in Ancestors(s) : <<c, "closed">> \notin PolledIn(last.ret))
                         => ObservedIn(last.ret, s) = "empty"
                   /\ Between(a, s) \cap PolledIdsIn(last.ret) = {}

C17_EmptyTransparency ==
    /\ []C17_EmptyAmended
    /\ [][\A s \in Sinks : \A a \in Ancestors(s) :
             EmptyThenReady(a)
                => \A n \in Between(a, s) :
                      (/\ ObservedIn(last'.ret, n) # "none"
                       /\ \A u \in Upstream(n) : ObservedIn(last'.ret, u) = "ready")
                         => n \in PolledIdsIn(last'.ret)]_vars

\* The first source has returned empty: the component and its sink observed
\* empty without being polled, while the second source and its sink were
\* polled.
C17_Witness ==
    /\ StepReturned
    /\ node_of(1, 3).connections_ = (0 :> 1 @@ 1 :> 2)
    /\ node_of(1, 4).connections_ = (0 :> 3)
    /\ node_of(1, 5).connections_ = (0 :> 2)
    /\ <<1, "empty">> \in PolledIn(last.ret)
    /\ ObservedIn(last.ret, 3) = "empty"
    /\ ObservedIn(last.ret, 4) = "empty"
    /\ PolledIdsIn(last.ret) = {1, 2, 5}

\* C18: step never changes the graph structure: after any step, and so after
\* any run, the live nodes, the next id and every node's connections and
\* dependencies are what they were before the call.
C18_StepKeepsStructure ==
    [][last'.op \in {"step", "run"}
         => /\ nodes_' = nodes_
            /\ current_id' = current_id
            /\ DOMAIN heap' = DOMAIN heap
            /\ \A o \in DOMAIN heap :
                  /\ heap'[o].kind = heap[o].kind
                  /\ heap'[o].connections_ = heap[o].connections_
                  /\ heap'[o].dependencies_ = heap[o].dependencies_
                  /\ heap'[o].slot = heap[o].slot]_vars

\* A source has returned closed in a step of run, after ticks that wrote
\* values to both sinks.
C18_Witness ==
    /\ StepReturned
    /\ run_pc = "loop"
    /\ <<1, "closed">> \in PolledIn(last.ret)
    /\ heap[4].stream # << >>
    /\ heap[5].stream # << >>

\* C19: run calls step repeatedly and returns right after the first step
\* that returns true; on the valid pipeline of scenario S1, with no edits and
\* sources that return closed after finitely many polls and ever after (the
\* component and the sinks return ready when polled), run terminates.
C19_RunLoop ==
    (run_pc = "loop" /\ last'.op = "step" /\ last'.err = "none")
       => (run_pc' = "returned" <=> last'.ret.is_all_closed)

C19_RunTerminates ==
    /\ [][C19_RunLoop]_vars
    /\ [][run_pc' = "returned" => (run_pc = "returned" \/ C19_RunLoop)]_vars
    /\ [](\A ord \in Orders : is_valid_result(1, ord))
    /\ [](run_pc = "loop" => <>(run_pc = "returned"))

\* run has returned after its eleventh step on the sources of bounds 5 and 10.
C19_Witness ==
    /\ run_pc = "returned"
    /\ heap[1].bound = BoundA
    /\ heap[2].bound = BoundB
    /\ ticks = BoundB + 1
    /\ StepReturned
    /\ last.ret.is_all_closed

\* The smaller of two numbers.
Min(x, y) == IF x <= y THEN x ELSE y

\* C20: scenario S1 with sources of bounds a <= b (a = 5 and b = 10 in the
\* test).  Steps 1..b return false and step b+1 is the first to return true;
\* sink A receives exactly 2, 4, ..., 2a and sink B exactly 1, 2, ..., b, in
\* that order, whether the ticks come from step or from run.
C20_ScenarioS1 ==
    LET a == heap[1].bound
        b == heap[2].bound
    IN  a <= b
          => /\ StepReturned => (last.ret.is_all_closed <=> ticks >= b + 1)
             /\ heap[4].stream = [i \in 1..Min(ticks, a) |-> 2 * i]
             /\ heap[5].stream = [i \in 1..Min(ticks, b) |-> i]
             /\ run_pc = "returned" => ticks >= b + 1

\* The run of Test Case 23 has returned: sink A holds 2 4 6 8 10 and sink B
\* holds 1 .. 10.
C20_Witness ==
    /\ run_pc = "returned"
    /\ ticks = BoundB + 1
    /\ heap[4].stream = <<2, 4, 6, 8, 10>>
    /\ heap[5].stream = <<1, 2, 3, 4, 5, 6, 7, 8, 9, 10>>

\* C21: scenario S2 with a skip source of bound a and a counting source of
\* bound b, a <= b (a = 6 and b = 10 in the tests).  On a tick where the skip
\* source returns empty, the component and sink A are not polled while the
\* other source and sink B are; sink A receives exactly 4, 8, ..., one value
\* per even tick up to a, and sink B exactly 1, 2, ..., b; a step returns true
\* from step b+1 on and not before, whether the ticks come from step or run.
C21_ScenarioS2 ==
    LET a == heap[1].bound
        b == heap[2].bound
    IN  a <= b
          => /\ StepReturned => (last.ret.is_all_closed <=> ticks >= b + 1)
             /\ (StepReturned /\ <<1, "empty">> \in PolledIn(last.ret))
                   => /\ PolledIdsIn(last.ret) = {1, 2, 5}
                      /\ ObservedIn(last.ret, 3) = "empty"
                      /\ ObservedIn(last.ret, 4) = "empty"
                      /\ heap[2].current_value = ticks
                      /\ Len(heap[5].stream) = ticks
             /\ heap[4].stream = [i \in 1..(Min(ticks, a) \div 2) |-> 4 * i]
             /\ heap[5].stream = [i \in 1..Min(ticks, b) |-> i]
             /\ run_pc = "returned" => ticks >= b + 1

\* The run of Test Case 24 has returned at its eleventh step: sink A holds
\* 4 8 12 and sink B holds 1 .. 10.
C21_Witness ==
    /\ run_pc = "returned"
    /\ ticks = BoundB + 1
    /\ heap[1].cls = "skip_source"
    /\ heap[1].bound = SkipBound
    /\ heap[4].stream = <<4, 8, 12>>
    /\ heap[5].stream = <<1, 2, 3, 4, 5, 6, 7, 8, 9, 10>>

\* ======================================================================
\* Replacing sources
\* ======================================================================

\* The source connected to a slot of a node has the class and bound given.
FedBy(dst, slot, cls, bound) ==
    /\ dst \in Live(1)
    /\ slot \in DOMAIN node_of(1, dst).connections_
    /\ LET src == node_of(1, dst).connections_[slot]
       IN  /\ src \in Live(1)
           /\ IsTestNode(node_of(1, src))
           /\ node_of(1, src).cls = cls
           /\ node_of(1, src).bound = bound

\* x, but not less than 0.
Pos(x) == IF x < 0 THEN 0 ELSE x

\* The first source of S1 alone has been erased and a fresh flex_source(5)
\* feeds slot 0 of the component in its place.
FirstSourceReplaced ==
    /\ erased[1] = {1}
    /\ Live(1) = {2, 3, 4, 5, 6}
    /\ FedBy(3, 0, "flex_source", BoundA)
    /\ node_of(1, 3).connections_ = (0 :> 6 @@ 1 :> 2)

\* Sink A after k ticks on the first source and t - k ticks on its
\* replacement: the sums 2i of the first k ticks (while the first source
\* lasted), then the sums of the fresh source's j and the second source's
\* k + j (while both last).
SinkAReplaced(k, t) ==
    [i \in 1..Min(k, BoundA) |-> 2 * i]
       \o [j \in 1..Pos(Min(Min(t - k, BoundA), BoundB - k)) |-> k + 2 * j]

\* C22: reversible closure.  Once the first source of S1 has been replaced
\* (erase_node, create_node of a fresh bound-5 source, connect to slot 0)
\* after k ticks, is_valid is true; sink A, which observed closed from tick 6
\* on, observes ready again on the ticks on which the fresh source and the
\* second source both return ready and receives their sums after the sums it
\* had; sink B receives 1 .. 10; and the steps return false up to step 10 and
\* true from step 11 on.  With k = 6: the next four steps return false, step
\* 11 returns true, sink A holds 2 4 6 8 10 8 10 12 14.
C22_ReversibleClosure ==
    FirstSourceReplaced
       => /\ \A ord \in Orders : is_valid_result(1, ord)
          /\ host.pc = "second"
                => LET k == host.at
                       t == ticks
                   IN  /\ heap[4].stream = SinkAReplaced(k, t)
                       /\ heap[5].stream = [i \in 1..Min(t, BoundB) |-> i]
                       /\ (StepReturned /\ t > k)
                             => /\ last.ret.is_all_closed <=> t >= BoundB + 1
                                /\ (t - k <= BoundA /\ t <= BoundB)
                                      => /\ ObservedIn(last.ret, 4) = "ready"
                                         /\ 4 \in PolledIdsIn(last.ret)

\* Test Case 22 at its end: replaced after six steps, the eleventh step has
\* returned true.
C22_Witness ==
    /\ FirstSourceReplaced
    /\ host = [pc |-> "second", at |-> 6]
    /\ ticks = 11
    /\ StepReturned
    /\ last.ret.is_all_closed
    /\ heap[4].stream = <<2, 4, 6, 8, 10, 8, 10, 12, 14>>
    /\ heap[5].stream = <<1, 2, 3, 4, 5, 6, 7, 8, 9, 10>>

\* S1 was run to completion (every sink observed closed) before the first
\* source was replaced, and the pipeline has been driven again since.
RerunAfterCompletion ==
    /\ FirstSourceReplaced
    /\ host.pc = "second"
    /\ host.at >= BoundB + 1

\* C23, as the spec states scenario S3: after S1 has been run to completion,
\* the bound-5 source erased, a fresh bound-5 source created and connected to
\* slot 0 of the component, and run called again, sink A holds
\* 2 4 6 8 10 6 8 10 12.
C23_AsStated ==
    (RerunAfterCompletion /\ ticks > host.at /\ run_pc = "returned")
       => heap[4].stream = <<2, 4, 6, 8, 10, 6, 8, 10, 12>>

\* C23, amended: in scenario S3 the second source is closed when the second
\* run begins and stays closed, so every step after the replacement returns
\* true without polling the component or sink A, run returns after its first
\* step, and sink A stays at 2 4 6 8 10 and sink B at 1 .. 10.
C23_NothingAdded ==
    RerunAfterCompletion
       => /\ heap[4].stream = <<2, 4, 6, 8, 10>>
          /\ heap[5].stream = <<1, 2, 3, 4, 5, 6, 7, 8, 9, 10>>
          /\ (StepReturned /\ ticks > host.at)
                => /\ last.ret.is_all_closed
                   /\ PolledIdsIn(last.ret) \cap {3, 4, 5} = {}
                   /\ <<2, "closed">> \in PolledIn(last.ret)

C23_SecondRun ==
    /\ []C23_NothingAdded
    /\ [][(RerunAfterCompletion /\ run_pc = "loop") => run_pc' = "returned"]_vars

\* The second run of scenario S3 has returned after one step: replaced after
\* the eleven steps of the first run, twelve steps in all.
C23_Witness ==
    /\ RerunAfterCompletion
    /\ host.at = BoundB + 1
    /\ ticks = BoundB + 2
    /\ run_pc = "returned"
    /\ StepReturned
    /\ last.ret.is_all_closed
    /\ heap[4].stream = <<2, 4, 6, 8, 10>>

\* Both sources of S2 have been erased; a fresh skip_source(6) feeds slot 0
\* of the component and a fresh flex_source(10) feeds slot 1 and sink B.
BothSourcesReplaced ==
    /\ erased[1] = {1, 2}
    /\ Live(1) = {3, 4, 5, 6, 7}
    /\ FedBy(3, 0, "skip_source", SkipBound)
    /\ FedBy(3, 1, "flex_source", BoundB)
    /\ DOMAIN node_of(1, 5).connections_ = {0}
    /\ node_of(1, 5).connections_[0] = node_of(1, 3).connections_[1]
    /\ node_of(1, 4).connections_ = (0 :> 3)

\* What the sinks of S2 hold after n ticks on fresh sources.
SinkAOfS2(n) == [i \in 1..(Min(n, SkipBound) \div 2) |-> 4 * i]

SinkBOfS2(n) == [i \in 1..Min(n, BoundB) |-> i]

\* C24: scenario S4.  After the S2 pipeline has been driven for k ticks (to
\* completion when k >= 11), with both sources erased and fresh copies
\* created and connected to slot 0, and to slot 1 and sink B, is_valid is
\* true again; the sinks receive after what they held the output of a fresh
\* S2 pipeline, so that after a complete first run the second run ends at
\* its eleventh step with sink A at 4 8 12 4 8 12 and sink B at 1 .. 10 1 .. 10.
C24_StateS4 ==
    BothSourcesReplaced
       => /\ \A ord \in Orders : is_valid_result(1, ord)
          /\ host.pc = "second"
                => LET k == host.at
                       t == ticks
                   IN  /\ heap[4].stream = SinkAOfS2(k) \o SinkAOfS2(t - k)
                       /\ heap[5].stream = SinkBOfS2(k) \o SinkBOfS2(t - k)
                       /\ (StepReturned /\ t > k)
                             => (last.ret.is_all_closed <=> t - k >= BoundB + 1)

C24_ScenarioS4 ==
    /\ []C24_StateS4
    /\ [][(BothSourcesReplaced /\ host.pc = "second" /\ run_pc = "loop")
            => (run_pc' = "returned" <=> ticks' - host.at >= BoundB + 1)]_vars

\* Test Case 25 at its end: the second run has returned at its eleventh step.
C24_Witness ==
    /\ BothSourcesReplaced
    /\ host = [pc |-> "second", at |-> BoundB + 1]
    /\ ticks = 2 * (BoundB + 1)
    /\ run_pc = "returned"
    /\ heap[4].stream = <<4, 8, 12, 4, 8, 12>>
    /\ heap[5].stream = <<1, 2, 3, 4, 5, 6, 7, 8, 9, 10, 1, 2, 3, 4, 5, 6, 7, 8, 9, 10>>

\* ======================================================================
\* The rendering of the graph
\* ======================================================================

\* The edges of the graph read from the connections_ of the live nodes, as
\* (upstream id, downstream id, slot).
EdgesOf(p) ==
    {<<node_of(p, d).connections_[s], d, s>> :
        <<d, s>> \in {x \in Live(p) \X (0..(MaxArity - 1)) :
                        x[2] \in DOMAIN node_of(p, x[1]).connections_}}

\* e comes before f: by upstream id, then downstream id, then slot.
EdgeBefore(e, f) ==
    \/ e[1] < f[1]
    \/ e[1] = f[1] /\ e[2] < f[2]
    \/ e[1] = f[1] /\ e[2] = f[2] /\ e[3] <= f[3]

RECURSIVE EdgesInOrder(_)
EdgesInOrder(E) ==
    IF E = {} THEN << >>
    ELSE LET m == CHOOSE e \in E : \A f \in E : EdgeBefore(e, f)
         IN  <<m>> \o EdgesInOrder(E \ {m})

\* C25: the rendering is the header, one node line per live node in
\* ascending id order, an empty line, one edge line per connection (a source
\* wired into k slots of one target gives k equal consecutive lines) ordered
\* by source id and, within one source, by downstream id, and the footer:
\* a function of the graph alone, whatever the order of the connect calls.
C25_Rendering ==
    last.op = "operator<<"
       => LET out == last.ret
              ids == SortedIds(Live(1))
              n   == Len(ids)
              E   == EdgesInOrder(EdgesOf(1))
          IN  /\ last.err = "none"
              /\ Len(out) = n + Len(E) + 3
              /\ out[1] = <<"digraph G {">>
              /\ \A i \in 1..n : out[1 + i] = <<label(1, ids[i])>>
              /\ out[n + 2] = <<"">>
              /\ \A j \in 1..Len(E) :
                    out[n + 2 + j] = <<label(1, E[j][1]), "->", label(1, E[j][2])>>
              /\ out[Len(out)] = <<"}">>

\* A source was connected to the sink first and then to both slots of the
\* component (Test Case 27 with one more connection): the rendering has the
\* two equal lines to the component before the line to the sink.
C25_Witness ==
    /\ last.op = "operator<<"
    /\ Live(1) = {1, 2, 3}
    /\ node_of(1, 1).dependencies_ = <<<<3, 0>>, <<2, 0>>, <<2, 1>>>>
    /\ SubSeq(last.ret, 6, 8)
         = << <<<<1, "SimpleSource">>, "->", <<2, "TestComponent">>>>,
              <<<<1, "SimpleSource">>, "->", <<2, "TestComponent">>>>,
              <<<<1, "SimpleSource">>, "->", <<3, "TestSink">>>> >>

\* ======================================================================
\* The order of the connections and the demand rule
\* ======================================================================

\* The ticks that return when the connections are visited in order ord.
ReturnedTicks(ord) == {r \in step_results(1, ord) : r.st.bad = "none"}

\* The ids polled in a tick and the value each poll_next returned.
PollsOf(r) == {r.st.polled[i] : i \in DOMAIN r.st.polled}

\* Two ticks in which every node polled in both returned the same value:
\* the nodes behaved the same way, only the visiting order differs.
SameNodeBehaviour(r1, r2) ==
    \A e1 \in PollsOf(r1), e2 \in PollsOf(r2) : e1[1] = e2[1] => e1[2] = e2[2]

\* C26: on a valid pipeline the outcome of a step does not depend on the
\* order in which the connections of a node are visited: with the nodes
\* behaving the same way, each demanded node observes the same state, the
\* same nodes are polled and step returns the same value; and a node with one
\* upstream that observed closed and another that observed empty observes
\* closed.
C26_OrderIndependent ==
    (\A ord \in Orders : is_valid_result(1, ord))
       => /\ \A r1 \in ReturnedTicks("ascending"), r2 \in ReturnedTicks("descending") :
                SameNodeBehaviour(r1, r2)
                   => /\ r1.st.visited = r2.st.visited
                      /\ {e[1] : e \in PollsOf(r1)} = {e[1] : e \in PollsOf(r2)}
                      /\ r1.is_all_closed = r2.is_all_closed
          /\ StepReturned
                => \A n \in DOMAIN last.ret.visited :
                      LET ups == Range(node_of(1, n).connections_)
                      IN  (/\ \E u \in ups : ObservedIn(last.ret, u) = "closed"
                           /\ \E u \in ups : ObservedIn(last.ret, u) = "empty")
                             => ObservedIn(last.ret, n) = "closed"

\* The ids, live in pipeline 1, of the node object at address ref.
IdsAt(ref) == {u \in Live(1) : nodes_[1][u] = ref}

\* The number of poll_next calls of node n in the tick.
PollCount(report, n) ==
    Cardinality({i \in DOMAIN report.polled : report.polled[i][1] = n})

\* C27: in any tick that returns, poll_next of a node is invoked only if
\* every upstream in its connections observed ready in that tick, and a
\* demanded node all of whose upstreams observed ready (or that has none) is
\* polled exactly once; hence every upstream whose value a polled node reads
\* through a pointer it stored was polled in that tick and returned ready.
C27_DemandRule ==
    StepReturned
       => /\ \A n \in PolledIdsIn(last.ret) :
                \A up \in Range(node_of(1, n).connections_) :
                   ObservedIn(last.ret, up) = "ready"
          /\ \A n \in DOMAIN last.ret.visited :
                (\A up \in Range(node_of(1, n).connections_) :
                    ObservedIn(last.ret, up) = "ready")
                   => PollCount(last.ret, n) = 1
          /\ \A n \in PolledIdsIn(last.ret) :
                \A s \in DOMAIN node_of(1, n).slot :
                   node_of(1, n).slot[s] # NULL
                      => /\ IdsAt(node_of(1, n).slot[s]) # {}
                         /\ \A up \in IdsAt(node_of(1, n).slot[s]) :
                               <<up, "ready">> \in PolledIn(last.ret)

\* A tick of the pipeline of Test Case 20 in which both sources returned
\* ready and the component was polled, while a sink returned closed.
C27_Witness ==
    /\ StepReturned
    /\ \A ord \in Orders : is_valid_result(1, ord)
    /\ node_of(1, 3).connections_ = (0 :> 1 @@ 1 :> 2)
    /\ {<<1, "ready">>, <<2, "ready">>, <<3, "ready">>} \subseteq PolledIn(last.ret)
    /\ \E s \in Sinks : <<s, "closed">> \in PolledIn(last.ret)

\* ======================================================================
\* Stored references, types and moved pipelines
\* ======================================================================

\* C29: after any sequence of editing operations, the upstream reference a
\* live node holds for slot s is bound exactly when s is a key of its
\* connections_, and then it refers to the live node connections_[s]; no live
\* node keeps a reference to an erased node.
C29_StoredReferences ==
    \A n \in Live(1) : \A s \in DOMAIN node_of(1, n).slot :
       LET node == node_of(1, n)
       IN  /\ node.slot[s] # NULL <=> s \in DOMAIN node.connections_
           /\ node.slot[s] # NULL => node.slot[s] \in DOMAIN heap
           /\ s \in DOMAIN node.connections_
                 => node.slot[s] = get_node(1, node.connections_[s])

\* C30: typing invariant.  After any sequence of editing operations every
\* key of a node's connections_ is one of its slots 0 .. arity-1, and for
\* every entry (slot -> up) the output type of up is the input type the node
\* declares for the slot; so a source has no connections and a sink has no
\* dependencies.
C30_Typing ==
    \A n \in Live(1) :
       LET node  == node_of(1, n)
           types == get_input_types(node.kind)
       IN  /\ \A s \in DOMAIN node.connections_ :
                 /\ s \in 0..(Len(types) - 1)
                 /\ node.connections_[s] \in Live(1)
                 /\ get_output_type(node_of(1, node.connections_[s]).kind) = types[s + 1]
           /\ types = << >> => node.connections_ = << >>
           /\ get_output_type(node.kind) = "void" => node.dependencies_ = << >>

\* A connect call has just filled the second slot of a component from a
\* source while a sink of doubles, which nothing can feed, is live.
C30_Witness ==
    /\ last.op = "connect"
    /\ last.err = "none"
    /\ \E n \in Live(1) :
          /\ node_of(1, n).kind = "component"
          /\ DOMAIN node_of(1, n).connections_ = {0, 1}
    /\ \E n \in Live(1) :
          /\ node_of(1, n).kind = "sink_double"
          /\ node_of(1, n).connections_ = << >>

\* C28: after a pipeline has received nodes by move construction or move
\* assignment, the next create_node on it returns an id that differs from
\* every id live in it and adds a new node under that id, so the transferred
\* ids keep returning the transferred nodes.
C28_CreateAfterMove ==
    [][(last.op \in MoveOps /\ last'.op = "create_node")
          => \A p \in Pipes :
                (/\ last.ret[1] = p
                 /\ last.ret[2] # p
                 /\ Live(p) # {}
                 /\ returned'[p] # returned[p])
                   => /\ last'.ret \notin Live(p)
                      /\ NodeAfter(p, last'.ret) # NULL
                      /\ NodeAfter(p, last'.ret) \notin DOMAIN heap
                      /\ \A id \in Live(p) : NodeAfter(p, id) = get_node(p, id)]_vars

\* ------------------------------------------- termination of a tick

\* The nodes the cycle search of is_valid visits.
CycleSearched(ord) ==
    DOMAIN cycle_search(1, SortedIds(DOMAIN nodes_[1]), << >>, ord)

\* is_valid returns true on the graph, which no call has edited.
ValidNow == \E ord \in Orders : is_valid_result(1, ord)

\* C31: when is_valid returns true and no edit intervenes, a following step
\* terminates: polling never re-enters a node that is still being evaluated,
\* and the nodes it evaluates are nodes the cycle search of is_valid visited.
C31_StepTerminates ==
    (last.op = "step" /\ ValidNow)
       => /\ last.err = "none"
          /\ \A ord \in Orders : DOMAIN last.ret.visited \subseteq CycleSearched(ord)

\* A step has returned on a valid pipeline in which the component feeds a
\* sink, and the tick went through the component to a source.
C31_Witness ==
    /\ last.op = "step"
    /\ ValidNow
    /\ last.err = "none"
    /\ \E s \in DOMAIN last.ret.visited, c \in DOMAIN last.ret.visited,
          u \in DOMAIN last.ret.visited :
          /\ node_of(1, s).kind = "sink"
          /\ node_of(1, c).kind = "component"
          /\ node_of(1, u).kind = "source"
          /\ c \in Range(node_of(1, s).connections_)
          /\ Range(node_of(1, c).connections_) = {u}

\* ------------------------------------------- the termination signal

\* The node a tick polled first.  In scenarios S1 and S2 it tells the order
\* in which the tick visited the connections of the component.
FirstPolled(report) ==
    IF report.polled = << >> THEN NULL ELSE report.polled[1][1]

\* C32: the termination signal is stable.  On a valid pipeline that is not
\* edited, whose nodes go on returning closed once they have returned closed,
\* after a step that returned true every later step returns true as well,
\* whatever the sources that alternate between ready and empty return.  The
\* two ticks compared visit the connections in the same order, as they do
\* when nothing has changed the maps in between.
C32_StableSignal ==
    [][(/\ last.op = "step"
        /\ last.err = "none"
        /\ last.ret.is_all_closed
        /\ last'.op = "step"
        /\ last'.err = "none"
        /\ FirstPolled(last'.ret) = FirstPolled(last.ret))
          => last'.ret.is_all_closed]_vars

====
